---------------------------- MODULE Spec2Model ----------------------------
(***************************************************************************)
(* Model of liquidez_etf.py: the Streamlit script that loads a table of    *)
(* daily traded volume per asset (load_data), rewrites the column labels   *)
(* into tickers (extract_ticker), converts and sorts the date axis, and    *)
(* shows liquidity statistics ("Raio-X Individual", "Duelo de Liquidez").  *)
(*                                                                         *)
(* A text is a sequence of one-character strings.  A table is a record     *)
(* [cols, rows]: cols the sequence of column labels, rows the sequence of  *)
(* rows, each row a sequence of cells aligned with cols.  Python's None,   *)
(* where a table or a file is expected, is a record of the same shape.     *)
(***************************************************************************)
EXTENDS Integers, Sequences, FiniteSets, TLC

VARIABLES
    uploaded_file,  \* the file in the sidebar's uploader, or None
    mode,           \* the sidebar's "Modo de Análise"
    df,             \* what load_data returned for uploaded_file, or None
    raised,         \* whether an exception left load_data
    errors,         \* the st.error messages of load_data, in order
    ops,            \* the library calls load_data made, in order
    sel,            \* the selectboxes' chosen positions in ativos
    view,           \* what the main script rendered in its last run
    col_name,       \* extract_ticker's argument (SpecTicker)
    ticker          \* [done, val]: extract_ticker's result, once called (SpecTicker)

vars == <<uploaded_file, mode, df, raised, errors, ops, sel, view, col_name, ticker>>

(***************************************************************************)
(* Bounds of the model.                                                    *)
(***************************************************************************)
MaxLabelLen == 6
MaxRows == 2

(***************************************************************************)
(* Characters: str.strip(), str.lower() and the classes of the pattern.    *)
(***************************************************************************)
UpperSeq ==
    <<"A","B","C","D","E","F","G","H","I","J","K","L","M",
      "N","O","P","Q","R","S","T","U","V","W","X","Y","Z">>
LowerSeq ==
    <<"a","b","c","d","e","f","g","h","i","j","k","l","m",
      "n","o","p","q","r","s","t","u","v","w","x","y","z">>
UpperChars == {UpperSeq[i] : i \in 1..Len(UpperSeq)}
DigitChars == {"0","1","2","3","4","5","6","7","8","9"}
SpaceChars == {" ", "\t", "\n", "\r"}

\* str.lower() on one character
LowerChar(c) ==
    IF c \in UpperChars
    THEN LowerSeq[CHOOSE i \in 1..Len(UpperSeq) : UpperSeq[i] = c]
    ELSE c

\* s.lower()
lower(s) == [i \in 1..Len(s) |-> LowerChar(s[i])]

RECURSIVE lstrip(_)
lstrip(s) ==
    IF s # <<>> /\ Head(s) \in SpaceChars THEN lstrip(Tail(s)) ELSE s

RECURSIVE rstrip(_)
rstrip(s) ==
    IF s # <<>> /\ s[Len(s)] \in SpaceChars
    THEN rstrip(SubSeq(s, 1, Len(s) - 1))
    ELSE s

\* s.strip()
strip(s) == rstrip(lstrip(s))

(***************************************************************************)
(* re.search(r'([A-Z]{4}\d{1,2})', s): the scan tries each start position  *)
(* from the left; \d{1,2} is greedy.                                       *)
(***************************************************************************)
NoMatch == <<>>

\* the length of the pattern's match starting at position i, 0 when none
MatchLenAt(s, i) ==
    IF /\ i + 4 <= Len(s)
       /\ \A k \in 0..3 : s[i + k] \in UpperChars
       /\ s[i + 4] \in DigitChars
    THEN IF i + 5 <= Len(s) /\ s[i + 5] \in DigitChars THEN 6 ELSE 5
    ELSE 0

RECURSIVE SearchFrom(_, _)
SearchFrom(s, i) ==
    IF i > Len(s) THEN NoMatch
    ELSE IF MatchLenAt(s, i) > 0 THEN SubSeq(s, i, i + MatchLenAt(s, i) - 1)
    ELSE SearchFrom(s, i + 1)

\* match.group(1) of re.search, or NoMatch
re_search(s) == SearchFrom(s, 1)

DataLabel == <<"D","a","t","a">>
data_lower == <<"d","a","t","a">>

Passthrough_stripped(name, s_col) == s_col

\* what extract_ticker returns when nothing matched
Passthrough(name, s_col) == name

extract_ticker(name) ==
    LET s_col == strip(name) IN
    IF lower(s_col) = data_lower THEN DataLabel
    ELSE LET match == re_search(s_col) IN
         IF match # NoMatch THEN match ELSE Passthrough(name, s_col)

(***************************************************************************)
(* Cells.  Every cell is a record [kind, val]:                             *)
(*   "str" a text cell, val its position in RawTexts;                      *)
(*   "num" a number; "nan" a missing cell (None / NaN);                    *)
(*   "ts"  a Timestamp, val the date as the number yyyymmdd;               *)
(*   "nat" pandas' NaT; "row" the text of a whole line read as one field.  *)
(***************************************************************************)
Str(k) == [kind |-> "str", val |-> k]
Num(v) == [kind |-> "num", val |-> v]
Ts(d) == [kind |-> "ts", val |-> d]
NaN == [kind |-> "nan", val |-> 0]
NaT == [kind |-> "nat", val |-> 0]
RowText == [kind |-> "row", val |-> 0]

\* the texts a date column holds in the inputs: two dates, later one first, and a
\* text that is no date
RawTexts ==
    << <<"2","0","2","4","-","0","1","-","0","2">>,
       <<"2","0","2","4","-","0","1","-","0","1">>,
       <<"n","/","a">> >>

DigitVal(c) == CHOOSE d \in 0..9 : <<"0","1","2","3","4","5","6","7","8","9">>[d + 1] = c

RECURSIVE DigitsVal(_)
DigitsVal(t) ==
    IF t = <<>> THEN 0
    ELSE 10 * DigitsVal(SubSeq(t, 1, Len(t) - 1)) + DigitVal(t[Len(t)])

\* whether the date parser accepts the text (ISO year-month-day)
IsDateText(t) ==
    /\ Len(t) = 10
    /\ t[5] = "-" /\ t[8] = "-"
    /\ \A i \in {1, 2, 3, 4, 6, 7, 9, 10} : t[i] \in DigitChars
    /\ DigitsVal(SubSeq(t, 6, 7)) \in 1..12
    /\ DigitsVal(SubSeq(t, 9, 10)) \in 1..31

\* the date of an accepted text, as the number yyyymmdd
DateOf(t) ==
    10000 * DigitsVal(SubSeq(t, 1, 4)) + 100 * DigitsVal(SubSeq(t, 6, 7))
        + DigitsVal(SubSeq(t, 9, 10))

\* whether pd.to_datetime raises on the cell
Unparseable(c) ==
    \/ c.kind = "str" /\ ~IsDateText(RawTexts[c.val])
    \/ c.kind = "row"

\* pd.to_datetime on one cell that it accepts: missing cells become NaT
DateCell(c) ==
    CASE c.kind = "str" -> Ts(DateOf(RawTexts[c.val]))
      [] c.kind \in {"nan", "nat"} -> NaT
      [] c.kind = "num" -> Ts(c.val)
      [] OTHER -> c

(***************************************************************************)
(* Uploaded files.  name is the file's name; layout says what the bytes    *)
(* are: "native" is well formed for the parser its suffix selects (a       *)
(* workbook, record-per-row XML, comma-delimited text), "semicolon" is     *)
(* regular semicolon-delimited text, "ragged" is semicolon-delimited text  *)
(* whose lines hold differing numbers of commas, "garbage" is none of      *)
(* these.  table is the table the bytes describe.                          *)
(***************************************************************************)
Table(header, body) == [is |-> "table", cols |-> header, rows |-> body]
\* Python's None where a table is expected, and a raised exception
NoneDf == [is |-> "None", cols |-> <<>>, rows |-> <<>>]
Raise == [is |-> "raise", cols |-> <<>>, rows |-> <<>>]
\* no file in the uploader
NoFile == [name |-> <<>>, layout |-> "None", table |-> NoneDf]

RECURSIVE Join(_, _)
Join(labels, sep) ==
    IF Len(labels) = 1 THEN labels[1]
    ELSE labels[1] \o <<sep>> \o Join(Tail(labels), sep)

\* the table a delimited-text parser builds when the delimiter of the text is
\* another one: every line is one field
OneField(t, sep) ==
    IF Len(t.cols) = 1 THEN t
    ELSE Table(<<Join(t.cols, sep)>>, [i \in 1..Len(t.rows) |-> <<RowText>>])

\* pd.read_excel(uploaded_file, engine='openpyxl')
read_excel(f) == IF f.layout = "native" THEN f.table ELSE Raise

\* pd.read_xml(uploaded_file)
read_xml(f) == IF f.layout = "native" THEN f.table ELSE Raise

\* pd.read_csv(uploaded_file, sep=sep) with the stream at position at; a stream
\* that a failed read has consumed holds nothing to parse
read_csv(f, sep, at) ==
    IF at # "start" THEN Raise
    ELSE CASE f.layout = "native" -> IF sep = "," THEN f.table ELSE OneField(f.table, ",")
           [] f.layout = "semicolon" -> IF sep = ";" THEN f.table ELSE OneField(f.table, ";")
           [] f.layout = "ragged" -> IF sep = ";" THEN f.table ELSE Raise
           [] OTHER -> Raise

seek0_skipped(at) == at

\* uploaded_file.seek(0)
seek0(at) == "start"

Op(call, delimiter, position) == [op |-> call, sep |-> delimiter, at |-> position]

endswith(s, suffix) ==
    /\ Len(s) >= Len(suffix)
    /\ SubSeq(s, Len(s) - Len(suffix) + 1, Len(s)) = suffix

file_name_as_given(name) == name

\* file_name = uploaded_file.name.lower()
file_name_of(name) == lower(name)

(***************************************************************************)
(* load_data, lines 35-44: the parse strategy and the delimiter fallback.  *)
(* A read is [df, ops]: the table, NoneDf or Raise, and the calls made.    *)
(***************************************************************************)
xlsx_suffix == <<".","x","l","s","x">>
csv_suffix == <<".","c","s","v">>
xml_suffix == <<".","x","m","l">>

\* the try/except around the two pd.read_csv calls
csv_read(f) ==
    LET first == read_csv(f, ",", "start") IN
    IF first.is # "raise"
    THEN [df |-> first, ops |-> <<Op("read_csv", ",", "start")>>]
    ELSE LET at == seek0("consumed") IN
         [df |-> read_csv(f, ";", at),
          ops |-> <<Op("read_csv", ",", "start"), Op("seek", "", at),
                    Op("read_csv", ";", at)>>]

read_file(f) ==
    LET file_name == file_name_of(f.name) IN
    IF endswith(file_name, xlsx_suffix)
    THEN [df |-> read_excel(f), ops |-> <<Op("read_excel", "", "start")>>]
    ELSE IF endswith(file_name, csv_suffix) THEN csv_read(f)
    ELSE IF endswith(file_name, xml_suffix)
    THEN [df |-> read_xml(f), ops |-> <<Op("read_xml", "", "start")>>]
    ELSE [df |-> NoneDf, ops |-> <<>>]

(***************************************************************************)
(* load_data, lines 46-54: labels, the date column, the sort.              *)
(***************************************************************************)
MissingData == "ERRO: Coluna 'Data' nao encontrada."
Critical == "Erro critico"

\* df.columns = [extract_ticker(c) for c in df.columns]
rename(cols) == [i \in 1..Len(cols) |-> extract_ticker(cols[i])]

\* the positions df['Data'] selects
date_columns(cols) == {i \in 1..Len(cols) : cols[i] = DataLabel}

DuplicateKeys_accepted(positions) == FALSE

\* df['Data'] is a DataFrame when several columns carry the label, and
\* pd.to_datetime on a DataFrame raises "cannot assemble with duplicate keys"
DuplicateKeys(positions) == Cardinality(positions) > 1

\* whether pd.to_datetime(df['Data']) raises
to_datetime_raises(rows, positions) ==
    \/ DuplicateKeys(positions)
    \/ \E i \in 1..Len(rows) : \E j \in positions : Unparseable(rows[i][j])

\* df['Data'] = pd.to_datetime(df['Data'])
to_datetime(rows, positions) ==
    [i \in 1..Len(rows) |->
        [j \in 1..Len(rows[i]) |->
            IF j \in positions THEN DateCell(rows[i][j]) ELSE rows[i][j]]]

\* the m-th smallest member of a set of positions
Nth(S, m) == CHOOSE i \in S : Cardinality({k \in S : k < i}) = m - 1

sort_values_skipped(rows, j) == {rows}

(***************************************************************************)
(* df.sort_values('Data'): kind='quicksort', na_position='last'.  The rows *)
(* with a date come first in ascending order, the rows with NaT follow in  *)
(* their original order.  Quicksort is not a stable sort, so rows of equal *)
(* date come in any order: every such order is an outcome.                 *)
(***************************************************************************)
sort_values(rows, j) ==
    LET dated == {i \in 1..Len(rows) : rows[i][j].kind = "ts"}
        nats == (1..Len(rows)) \ dated
        d == Cardinality(dated)
        orders == {p \in [1..d -> dated] :
                      /\ \A a, b \in 1..d : a # b => p[a] # p[b]
                      /\ \A a \in 1..d : a < d => rows[p[a]][j].val <= rows[p[a + 1]][j].val}
    IN  {[k \in 1..Len(rows) |->
            IF k <= d THEN rows[p[k]] ELSE rows[Nth(nats, k - d)]] : p \in orders}

except_returns_partial(partial, done) ==
    [df |-> partial, raised |-> FALSE, errors |-> <<"Erro critico">>, ops |-> done]

missing_date_returns_df(partial, done) ==
    [df |-> partial, raised |-> FALSE, errors |-> <<>>, ops |-> done]

\* except Exception as e: st.error(...); return None.  partial is the value of
\* the local df when the exception was raised.
except_Exception(partial, done) ==
    [df |-> NoneDf, raised |-> FALSE, errors |-> <<Critical>>, ops |-> done]

\* else: st.error("ERRO: Coluna 'Data' ..."); return None
missing_date(partial, done) ==
    [df |-> NoneDf, raised |-> FALSE, errors |-> <<MissingData>>, ops |-> done]

\* lines 46-54 on the table a read returned; done are the calls made so far
normalize(raw, done) ==
    LET cols == rename(raw.cols)
        renamed == Table(cols, raw.rows)
        positions == date_columns(cols)
        td == Op("to_datetime", "", "")
    IN  IF positions = {} THEN {missing_date(renamed, done)}
        ELSE IF to_datetime_raises(raw.rows, positions)
        THEN {except_Exception(renamed, Append(done, td))}
        ELSE LET rows == to_datetime(raw.rows, positions)
                 j == Nth(positions, 1)
             IN  {[df |-> Table(cols, sorted), raised |-> FALSE, errors |-> <<>>,
                   ops |-> done \o <<td, Op("sort_values", "", "")>>] :
                     sorted \in sort_values(rows, j)}

\* load_data(uploaded_file): the set of its outcomes [df, raised, errors, ops]
load_data(f) ==
    LET r == read_file(f) IN
    IF r.df.is = "raise" THEN {except_Exception(NoneDf, r.ops)}
    ELSE IF r.df.is = "None"
    THEN {[df |-> NoneDf, raised |-> FALSE, errors |-> <<>>, ops |-> r.ops]}
    ELSE normalize(r.df, r.ops)

(***************************************************************************)
(* Numbers of the statistics.  A number is [num, den, ty]: the fraction    *)
(* num/den with den > 0, NaN when den = 0; ty tells Python's int from      *)
(* numpy's float64.                                                        *)
(***************************************************************************)
Float(n, d) == [num |-> n, den |-> d, ty |-> "float"]
NaNum == Float(0, 0)
\* the literal 0 of "... else 0"
PyZero == [num |-> 0, den |-> 1, ty |-> "int"]

\* x > 0 (False for NaN)
gt0(x) == x.den > 0 /\ x.num > 0
\* x >= 1 (False for NaN)
ge1(x) == x.den > 0 /\ x.num >= x.den
IsZero(x) == x.den > 0 /\ x.num = 0

\* a / b for a b that is > 0
div(a, b) == IF a.den = 0 THEN a ELSE Float(a.num * b.den, a.den * b.num)

RECURSIVE SumSeq(_)
SumSeq(v) == IF v = <<>> THEN 0 ELSE Head(v) + SumSeq(Tail(v))

\* the k-th smallest value of v
Ranked(v, k) ==
    v[CHOOSE i \in 1..Len(v) :
        Cardinality({j \in 1..Len(v) : v[j] < v[i] \/ (v[j] = v[i] /\ j < i)}) = k - 1]

\* series.mean()
mean(v) == IF v = <<>> THEN NaNum ELSE Float(SumSeq(v), Len(v))

\* series.median()
median(v) ==
    IF v = <<>> THEN NaNum
    ELSE IF Len(v) % 2 = 1 THEN Float(Ranked(v, (Len(v) + 1) \div 2), 1)
    ELSE Float(Ranked(v, Len(v) \div 2) + Ranked(v, Len(v) \div 2 + 1), 2)

\* df[label]: the values of the column
series(t, label) ==
    LET j == CHOOSE j \in 1..Len(t.cols) : t.cols[j] = label IN
    [i \in 1..Len(t.rows) |-> t.rows[i][j].val]

\* ativos = [c for c in df.columns if c != 'Data']
ativos_of(t) == SelectSeq(t.cols, LAMBDA c : c # DataLabel)

\* st.selectbox(label, options, index): None (here <<>>) without options
selectbox(options, position) == IF options = <<>> THEN <<>> ELSE options[position]

\* the position the Duelo's second selectbox starts at
DefaultB(t) == IF Len(ativos_of(t)) > 1 THEN 2 ELSE 1
DefaultSel(t) == [a |-> 1, b |-> DefaultB(t)]

(***************************************************************************)
(* The main script, lines 70-225.  A view is what one run rendered:        *)
(* [screen, assets, nums, inv, exc]; nums are media, mediana, ratio in     *)
(* "raio-x" and m1, m2, med1, med2, ratio1, ratio2, fator in "duelo"; inv  *)
(* is the fator that 1/fator was evaluated with (<<>> when it was not);    *)
(* exc an exception that ended the run.                                    *)
(***************************************************************************)
View(shown, labels, numbers, inverted, exception) ==
    [screen |-> shown, assets |-> labels, nums |-> numbers, inv |-> inverted,
     exc |-> exception]

\* ratio = media / mediana if mediana > 0 else 0
ratio_of(media, mediana) == IF gt0(mediana) THEN div(media, mediana) ELSE PyZero

raio_x(t, s) ==
    LET selected_asset == selectbox(ativos_of(t), s.a) IN
    IF selected_asset = <<>> THEN View("raio-x", <<>>, <<>>, <<>>, "")
    ELSE LET media == mean(series(t, selected_asset))
             mediana == median(series(t, selected_asset))
         IN  View("raio-x", <<selected_asset>>,
                  <<media, mediana, ratio_of(media, mediana)>>, <<>>, "")

\* lines 154-157: whether the else branch, which computes 1/fator, is taken
inverts(fator) == ~ge1(fator)

duelo(t, s) ==
    LET a1 == selectbox(ativos_of(t), s.a)
        a2 == selectbox(ativos_of(t), s.b)
    IN  IF a1 = <<>> \/ a2 = <<>> \/ a1 = a2 THEN View("duelo", <<>>, <<>>, <<>>, "")
        ELSE LET m1 == mean(series(t, a1))
                 m2 == mean(series(t, a2))
                 med1 == median(series(t, a1))
                 med2 == median(series(t, a2))
                 ratio1 == ratio_of(m1, med1)
                 ratio2 == ratio_of(m2, med2)
                 fator == IF gt0(m2) THEN div(m1, m2) ELSE PyZero
                 nums == <<m1, m2, med1, med2, ratio1, ratio2, fator>>
             IN  IF ~inverts(fator) THEN View("duelo", <<a1, a2>>, nums, <<>>, "")
                 ELSE IF IsZero(fator) /\ fator.ty = "int"
                 THEN View("duelo", <<a1, a2>>, nums, <<fator>>, "ZeroDivisionError")
                 ELSE View("duelo", <<a1, a2>>, nums, <<fator>>, "")

Waiting == View("info", <<>>, <<>>, <<>>, "")
Nothing == View("", <<>>, <<>>, <<>>, "")

\* one run of the script
script(f, t, m, s) ==
    IF f.layout = "None" THEN Waiting
    ELSE IF t.is # "table" THEN Nothing
    ELSE IF m = "Raio-X Individual" THEN raio_x(t, s)
    ELSE duelo(t, s)

(***************************************************************************)
(* The inputs: file names, raw headers, rows.                              *)
(***************************************************************************)
Names ==
    { <<"a",".","c","s","v">>, <<"A",".","C","s","v">>,
      <<"b",".","x","l","s","x">>, <<"b",".","X","M","L">>,
      <<"n","o","t","e","s",".","t","x","t">>, <<"x","c","s","v">> }

RawData == <<"D","a","t","a">>
RawDATA == <<" ","D","A","T","A"," ">>
RawBOVA == <<"X","_","B","O","V","A","1","1","_","V","O","L">>
RawSMAL == <<"S","M","A","L","1","1">>

Headers ==
    { <<RawData>>, <<RawDATA, RawBOVA>>, <<RawBOVA, RawData>>,
      <<RawData, RawDATA, RawBOVA>>, <<RawBOVA, RawSMAL>>,
      <<RawData, RawBOVA, RawSMAL>> }

\* the cells of a date column: the texts of RawTexts and a missing cell
DateCells == {Str(k) : k \in 1..Len(RawTexts)} \cup {NaN}
Volumes == {0, 1}
SignedVolumes == {0 - 1, 0, 1}

IsDateLabel(c) == lower(strip(c)) = data_lower

\* tables whose rows hold one date and one volume: the date in every date
\* column, the volume in every other column
ShapeTables ==
    UNION {{Table(h, [i \in 1..n |->
                        [j \in 1..Len(h) |->
                            IF IsDateLabel(h[j]) THEN r[i][1] ELSE Num(r[i][2])]]) :
               h \in Headers, r \in [1..n -> DateCells \X Volumes]} : n \in 0..MaxRows}

\* tables of two assets whose volumes vary independently, on one date
VolumeTables ==
    UNION {{Table(<<RawData, RawBOVA, RawSMAL>>,
                  [i \in 1..n |-> <<Str(1), Num(r[i][1]), Num(r[i][2])>>]) :
               r \in [1..n -> SignedVolumes \X SignedVolumes]} : n \in 1..MaxRows}

Files ==
    {[name |-> nm, layout |-> l, table |-> t] :
        nm \in Names, l \in {"native", "semicolon", "ragged"}, t \in ShapeTables}
    \cup {[name |-> nm, layout |-> "garbage", table |-> NoneDf] : nm \in Names}
    \cup {[name |-> <<"a",".","c","s","v">>, layout |-> "native", table |-> t] :
            t \in VolumeTables}

LabelAlphabet == {"D", "a", "T", "1", " "}
Labels == UNION {[1..n -> LabelAlphabet] : n \in 0..MaxLabelLen}

Modes == {"Raio-X Individual", "Duelo de Liquidez"}

(***************************************************************************)
(* The state machine.  Streamlit runs the whole script on every            *)
(* interaction; load_data is cached per file (st.cache_data), so df is     *)
(* computed when the file arrives and read by the later runs.              *)
(***************************************************************************)
NoTicker == [done |-> FALSE, val |-> <<>>]

Init ==
    /\ uploaded_file = NoFile
    /\ mode = "Raio-X Individual"
    /\ df = NoneDf
    /\ raised = FALSE
    /\ errors = <<>>
    /\ ops = <<>>
    /\ sel = DefaultSel(NoneDf)
    /\ view = Waiting
    /\ col_name = <<>>
    /\ ticker = NoTicker

\* the user puts a file in the empty uploader: load_data runs, then the rest of
\* the script
UploadFile ==
    /\ uploaded_file = NoFile
    /\ \E f \in Files : \E o \in load_data(f) :
        /\ uploaded_file' = f
        /\ df' = o.df
        /\ raised' = o.raised
        /\ errors' = o.errors
        /\ ops' = o.ops
        /\ sel' = DefaultSel(o.df)
        /\ view' = script(f, o.df, mode, DefaultSel(o.df))
        /\ UNCHANGED <<mode, col_name, ticker>>

\* the user removes the file: the script shows "Aguardando upload..."
RemoveFile ==
    /\ uploaded_file # NoFile
    /\ uploaded_file' = NoFile
    /\ df' = NoneDf
    /\ raised' = FALSE
    /\ errors' = <<>>
    /\ ops' = <<>>
    /\ sel' = DefaultSel(NoneDf)
    /\ view' = Waiting
    /\ UNCHANGED <<mode, col_name, ticker>>

\* the user picks the other mode
SelectMode(m) ==
    /\ m # mode
    /\ mode' = m
    /\ sel' = DefaultSel(df)
    /\ view' = script(uploaded_file, df, m, DefaultSel(df))
    /\ UNCHANGED <<uploaded_file, df, raised, errors, ops, col_name, ticker>>

\* the user picks assets in the selectboxes
SelectAssets(a, b) ==
    /\ df.is = "table"
    /\ a \in 1..Len(ativos_of(df))
    /\ b \in 1..Len(ativos_of(df))
    /\ mode = "Raio-X Individual" => b = DefaultB(df)
    /\ [a |-> a, b |-> b] # sel
    /\ sel' = [a |-> a, b |-> b]
    /\ view' = script(uploaded_file, df, mode, [a |-> a, b |-> b])
    /\ UNCHANGED <<uploaded_file, mode, df, raised, errors, ops, col_name, ticker>>

\* lines 47-50 applied once more, to the table load_data returned
Renormalize ==
    /\ df.is = "table"
    /\ \E o \in normalize(df, <<>>) :
        /\ df' = o.df
        /\ view' = script(uploaded_file, o.df, mode, sel)
    /\ UNCHANGED <<uploaded_file, mode, raised, errors, ops, sel, col_name, ticker>>

Next ==
    \/ UploadFile
    \/ RemoveFile
    \/ \E m \in Modes : SelectMode(m)
    \/ \E a, b \in 1..Len(df.cols) : SelectAssets(a, b)
    \/ Renormalize

Spec == Init /\ [][Next]_vars

(***************************************************************************)
(* extract_ticker alone, on every label of up to MaxLabelLen characters.   *)
(***************************************************************************)
InitTicker ==
    /\ uploaded_file = NoFile
    /\ mode = "Raio-X Individual"
    /\ df = NoneDf
    /\ raised = FALSE
    /\ errors = <<>>
    /\ ops = <<>>
    /\ sel = DefaultSel(NoneDf)
    /\ view = Waiting
    /\ col_name \in Labels
    /\ ticker = NoTicker

CallExtract ==
    /\ ~ticker.done
    /\ ticker' = [done |-> TRUE, val |-> extract_ticker(col_name)]
    /\ UNCHANGED <<uploaded_file, mode, df, raised, errors, ops, sel, view, col_name>>

\* the result is passed to extract_ticker again
CallAgain ==
    /\ ticker.done
    /\ col_name # ticker.val
    /\ col_name' = ticker.val
    /\ ticker' = [done |-> TRUE, val |-> extract_ticker(ticker.val)]
    /\ UNCHANGED <<uploaded_file, mode, df, raised, errors, ops, sel, view>>

NextTicker == CallExtract \/ CallAgain

SpecTicker == InitTicker /\ [][NextTicker]_vars

(***************************************************************************)
(* What the claims speak of, stated from the uploaded file and the result. *)
(***************************************************************************)
Uploaded == uploaded_file # NoFile

\* whether name ends with suffix, letter case ignored
HasSuffix(name, suffix) ==
    /\ Len(name) >= Len(suffix)
    /\ \A i \in 1..Len(suffix) :
          LowerChar(name[Len(name) - Len(suffix) + i]) = suffix[i]

IsCsv == HasSuffix(uploaded_file.name, csv_suffix)
IsXlsx == HasSuffix(uploaded_file.name, xlsx_suffix)
IsXml == HasSuffix(uploaded_file.name, xml_suffix)

\* the table the parse of the uploaded file produced, Raise or NoneDf
Parsed == read_file(uploaded_file).df

Called(call) == \E i \in 1..Len(ops) : ops[i].op = call
SemicolonReads == {i \in 1..Len(ops) : ops[i].op = "read_csv" /\ ops[i].sep = ";"}

\* the dates of a table, top to bottom, read from its first 'Data' column
Dates(t) ==
    LET j == CHOOSE j \in 1..Len(t.cols) :
                 t.cols[j] = DataLabel /\ \A k \in 1..(j - 1) : t.cols[k] # DataLabel
    IN  [i \in 1..Len(t.rows) |-> t.rows[i][j]]

\* a <= b on date values: a comparison with NaT is False
LeDate(a, b) == a.kind = "ts" /\ b.kind = "ts" /\ a.val <= b.val

Count(rows, r) == Cardinality({i \in 1..Len(rows) : rows[i] = r})

\* the rows of df are the parsed rows with their dates converted, each as often
RowsKept ==
    LET given == to_datetime(Parsed.rows, date_columns(df.cols)) IN
    /\ Len(df.rows) = Len(given)
    /\ \A i \in 1..Len(given) : Count(df.rows, given[i]) = Count(given, given[i])

TickerStarts(t) ==
    {i \in 1..Len(t) :
        /\ i + 4 <= Len(t)
        /\ \A k \in i..(i + 3) : t[k] \in UpperChars
        /\ t[i + 4] \in DigitChars}

NoDateColumn ==
    /\ Uploaded
    /\ Parsed.is = "table"
    /\ \A i \in 1..Len(Parsed.cols) : extract_ticker(Parsed.cols[i]) # DataLabel

C3_MissingDateColumn ==
    NoDateColumn =>
        /\ df.is = "None"
        /\ errors = <<MissingData>>
        /\ ~raised
        /\ ~Called("to_datetime")
        /\ ~Called("sort_values")

\* columns BOVA11 and SMAL11 only, read from comma-delimited text
C3_Witness ==
    /\ NoDateColumn
    /\ IsCsv
    /\ Parsed.cols = <<RawBOVA, RawSMAL>>
    /\ Len(Parsed.rows) > 0
    /\ errors = <<MissingData>>

(***************************************************************************)
(* C4: the parse strategy follows the file name's suffix alone, letter     *)
(* case ignored (.xlsx, .csv, .xml); any other suffix gives no table and   *)
(* no parse is attempted.                                                  *)
(***************************************************************************)
C4_StrategyBySuffix ==
    Uploaded =>
        IF IsXlsx THEN ops # <<>> /\ ops[1] = Op("read_excel", "", "start")
        ELSE IF IsCsv THEN ops # <<>> /\ ops[1] = Op("read_csv", ",", "start")
        ELSE IF IsXml THEN ops # <<>> /\ ops[1] = Op("read_xml", "", "start")
        ELSE df.is = "None" /\ ops = <<>> /\ ~raised

\* a well-formed table under the name notes.txt: nothing was parsed
C4_Witness ==
    /\ Uploaded
    /\ uploaded_file.name = <<"n","o","t","e","s",".","t","x","t">>
    /\ uploaded_file.layout = "native"
    /\ Len(uploaded_file.table.rows) > 0
    /\ df.is = "None"
    /\ ops = <<>>

(***************************************************************************)
(* C5: for a .csv file the comma parse comes first; the semicolon parse    *)
(* runs only after the comma parse failed, from the start of the content   *)
(* (after the rewind), at most once; a failure to load is reported only    *)
(* after both failed; a comma parse that succeeded is followed by no       *)
(* semicolon parse.                                                        *)
(***************************************************************************)
CommaFails == read_csv(uploaded_file, ",", "start").is = "raise"
SemicolonFails == read_csv(uploaded_file, ";", "start").is = "raise"

C5_CommaThenSemicolon ==
    (Uploaded /\ IsCsv /\ ~IsXlsx) =>
        /\ ops # <<>> /\ ops[1] = Op("read_csv", ",", "start")
        /\ Cardinality(SemicolonReads) <= 1
        /\ \A i \in SemicolonReads :
              /\ CommaFails
              /\ i = 3
              /\ ops[2] = Op("seek", "", "start")
              /\ ops[i].at = "start"
        /\ CommaFails => SemicolonReads # {}
        /\ ~CommaFails => SemicolonReads = {}
        /\ (errors = <<Critical>> /\ ~Called("to_datetime")) =>
              (CommaFails /\ SemicolonFails /\ SemicolonReads # {})

\* the comma parse failed and the semicolon parse, from the start, gave the table
C5_Witness ==
    /\ Uploaded /\ IsCsv
    /\ uploaded_file.layout = "ragged"
    /\ Len(ops) >= 3 /\ ops[3] = Op("read_csv", ";", "start")
    /\ df.is = "table"
    /\ Len(df.rows) > 0

(***************************************************************************)
(* C6: a raw table whose only column is the date column is rejected with   *)
(* an error (no asset columns): no table reaches the statistics stage.     *)
(***************************************************************************)
C6_NoAssetColumnsRejected ==
    (/\ Uploaded
     /\ Parsed.is = "table"
     /\ Len(Parsed.cols) = 1
     /\ extract_ticker(Parsed.cols[1]) = DataLabel)
        => (df.is = "None" /\ errors # <<>>)

(***************************************************************************)
(* C7: the pipeline fails closed.  If the parse fails with no fallback     *)
(* left, or a cell of the date column cannot be converted, load_data       *)
(* raises nothing and returns no table, with the error reported; a table   *)
(* it returns is fully processed (labels rewritten, every date converted,  *)
(* rows sorted); statistics are computed only when a table was returned.   *)
(***************************************************************************)
ParseFails ==
    \/ IsXlsx /\ uploaded_file.layout # "native"
    \/ ~IsXlsx /\ IsCsv /\ CommaFails /\ SemicolonFails
    \/ ~IsXlsx /\ ~IsCsv /\ IsXml /\ uploaded_file.layout # "native"

BadDateCell ==
    /\ Parsed.is = "table"
    /\ \E j \in 1..Len(Parsed.cols) :
          /\ extract_ticker(Parsed.cols[j]) = DataLabel
          /\ \E i \in 1..Len(Parsed.rows) :
                /\ Parsed.rows[i][j].kind = "str"
                /\ ~IsDateText(RawTexts[Parsed.rows[i][j].val])

C8_RenormalizeIsIdentity == [][Renormalize => df' = df]_vars

\* the part of C8 that holds: the labels of a returned table are fixed points of
\* extract_ticker
C8_LabelsFixed ==
    df.is = "table" => \A j \in 1..Len(df.cols) : extract_ticker(df.cols[j]) = df.cols[j]

(***************************************************************************)
(* C9: in every table load_data returns exactly one column is 'Data',      *)
(* also when several raw labels ("Data", " DATA ") fold to "data".         *)
(***************************************************************************)
C9_OneDateColumn ==
    df.is = "table" => Cardinality({j \in 1..Len(df.cols) : df.cols[j] = DataLabel}) = 1

\* two raw labels fold to "data", every date is a date: the table was refused
C9_Witness ==
    /\ Uploaded
    /\ Parsed.is = "table"
    /\ Cardinality({j \in 1..Len(Parsed.cols) : IsDateLabel(Parsed.cols[j])}) = 2
    /\ Len(Parsed.rows) > 0
    /\ ~BadDateCell
    /\ df.is = "None"
    /\ errors = <<Critical>>

(***************************************************************************)
(* C10: the Duelo never divides by zero: each mean/median ratio is 0 when  *)
(* the median is not positive, the fator is 0 when m2 is not positive, and *)
(* 1/fator is evaluated only with a fator that is not zero.                *)
(***************************************************************************)
C10_DueloNeverDividesByZero ==
    (view.screen = "duelo" /\ view.nums # <<>>) =>
        /\ ~gt0(view.nums[3]) => view.nums[5] = PyZero
        /\ ~gt0(view.nums[4]) => view.nums[6] = PyZero
        /\ ~gt0(view.nums[2]) => view.nums[7] = PyZero
        /\ view.inv # <<>> => ~IsZero(view.inv[1])
        /\ view.exc = ""

=============================================================================
